---- MODULE Spec2Model ----
(***************************************************************************)
(* A model of kupaldownloader.py: the transfer functions                   *)
(* (download_raw_data, save_as_json, upload_data_back), the command-line   *)
(* run of main() and the handlers of KupalDownloaderGUI.                   *)
(*                                                                         *)
(* The ZKTeco device is reached through the third-party zk library.  Its   *)
(* calls are modelled by their contract: a listing or a write may raise,   *)
(* a call on a closed session raises, disconnect never raises.  The        *)
(* device's stored users and templates do not change during a run; writes  *)
(* are recorded in the log of device calls.  get_device_info's three       *)
(* queries return text for the log and are not recorded.  A template's     *)
(* payload is a value json can write: once the file is open, json.dump     *)
(* completes.                                                              *)
(*                                                                         *)
(* Python values: a JSON array is PyList(seq), a JSON object PyDict(rec);  *)
(* the user, template and record dictionaries inside the arrays are TLA+   *)
(* records, a missing key is a name outside DOMAIN.  Of a user's fields,   *)
(* uid, user_id and name are kept; privilege, password and group_id are    *)
(* copied by the code exactly as name is.                                  *)
(***************************************************************************)
EXTENDS Integers, Sequences, FiniteSets, TLC

VARIABLES
    dev,            \* the device: its users, its templates, the writes it rejects
    records,        \* upload harness: the record list R handed to upload_data_back
    runs,           \* upload/download harness: outcome of each call made so far
    args,           \* main: the parsed command line
    pc,             \* main: position in the CLI branch
    conn,           \* main: local variable conn (a session id, None before connect)
    data,           \* main: local variable data
    steps,          \* main: the steps run so far, each with whether it raised
    exitCode,       \* main: the process exit status, NoExit while running
    log,            \* the logger's stream
    fs,             \* the file system: file name -> parsed content
    clock,          \* datetime.now() at second resolution
    sessions,       \* the sessions opened so far: id -> "open" | "closed"
    connection,     \* KupalDownloaderGUI.connection
    conn_status,    \* KupalDownloaderGUI.conn_status text
    connect_btn,    \* state of the Connect button
    disconnect_btn, \* state of the Disconnect button
    last,           \* GUI: the handler that ran last, its device calls and dialog
    prev            \* GUI: the handler that ran before it

vars == <<dev, records, runs, args, pc, conn, data, steps, exitCode, log, fs,
          clock, sessions, connection, conn_status, connect_btn,
          disconnect_btn, last, prev>>

(***************************************************************************)
(* Bounds                                                                  *)
(***************************************************************************)
MaxUid == 3
MaxFid == 2
MaxTemplates == 3
MaxRejects == 1
MaxSessions == 2
MaxClock == 2

(***************************************************************************)
(* Python values                                                           *)
(***************************************************************************)
None == 0

PyList(s) == [kind |-> "list", items |-> s]

PyDict(f) == [kind |-> "dict", fields |-> f]

\* len(): the number of elements of a list, the number of keys of a dict
PyLen(v) == IF v.kind = "list" THEN Len(v.items) ELSE Cardinality(DOMAIN v.fields)

RECURSIVE SetToSeq(_)
SetToSeq(S) ==
    IF S = {} THEN <<>>
    ELSE LET x == CHOOSE y \in S : TRUE IN <<x>> \o SetToSeq(S \ {x})

\* Iterating a list yields its elements, iterating a dict yields its keys
\* (strings, which cannot be subscripted by a key).
PyIter(v) ==
    IF v.kind = "list"
    THEN [i \in 1..Len(v.items) |-> [isDict |-> TRUE, val |-> v.items[i]]]
    ELSE LET ks == SetToSeq(DOMAIN v.fields)
         IN  [i \in 1..Len(ks) |-> [isDict |-> FALSE, val |-> ks[i]]]

\* item[key] succeeds
HasKey(item, key) == item.isDict /\ key \in DOMAIN item.val

\* One line of the logger's stream: level, message, the value formatted in.
LogLine(level, msg, arg) == <<level, msg, arg>>

(***************************************************************************)
(* The device                                                              *)
(***************************************************************************)
Uids == 1..MaxUid

Fids == 0..(MaxFid - 1)

User(uid) == [uid |-> uid, user_id |-> 100 + uid, name |-> 200 + uid]

\* A template may belong to a uid the device lists no user for.
TemplatePool == (1..(MaxUid + 1)) \X Fids

Template(p) ==
    [uid |-> p[1], fid |-> p[2], size |-> 1, valid |-> 1,
     template |-> 10 * p[1] + p[2]]

RECURSIVE SortedUids(_)
SortedUids(S) ==
    IF S = {} THEN <<>>
    ELSE LET m == CHOOSE x \in S : \A y \in S : x <= y
         IN  <<m>> \o SortedUids(S \ {m})

PairKey(p) == p[1] * MaxFid + p[2]

RECURSIVE SortedPairs(_)
SortedPairs(S) ==
    IF S = {} THEN <<>>
    ELSE LET m == CHOOSE x \in S : \A y \in S : PairKey(x) <= PairKey(y)
         IN  <<m>> \o SortedPairs(S \ {m})

UsersOf(U) == LET s == SortedUids(U) IN [i \in 1..Len(s) |-> User(s[i])]

TemplatesOf(T) == LET s == SortedPairs(T) IN [i \in 1..Len(s) |-> Template(s[i])]

TemplateSets == {T \in SUBSET TemplatePool : Cardinality(T) <= MaxTemplates}

Device(U, T, R) == [users |-> UsersOf(U), templates |-> TemplatesOf(T), rejects |-> R]

\* What goes wrong first in one operation, if anything: get_users raises,
\* the at-th get_templates raises, the file cannot be opened for writing.
Faults ==
    {[kind |-> k, at |-> 0] : k \in {"none", "users", "open"}}
    \cup {[kind |-> "templates", at |-> i] : i \in 1..MaxUid}

DeviceFaults == {f \in Faults : f.kind \in {"none", "users", "templates"}}

FileFaults == {f \in Faults : f.kind \in {"none", "open"}}

(***************************************************************************)
(* download_raw_data                                                       *)
(***************************************************************************)
TemplateMatchesAll(template, user) == TRUE

TemplateMatches(template, user) == template.uid = user.uid

ExportedTemplate(t) ==
    [fid |-> t.fid, size |-> t.size, valid |-> t.valid, template |-> t.template]

UserFingerprints(user, templates) ==
    LET mine == SelectSeq(templates, LAMBDA t : TemplateMatches(t, user))
    IN  [i \in 1..Len(mine) |-> ExportedTemplate(mine[i])]

UserData(user, templates) ==
    [uid |-> user.uid, user_id |-> user.user_id, name |-> user.name,
     fingerprints |-> UserFingerprints(user, templates)]

\* The loop over users, from user i on: `out` is data so far, `calls` the
\* device calls so far.  get_templates is called inside the loop body.
RECURSIVE DownloadLoop(_, _, _, _, _)
DownloadLoop(users, i, out, calls, faults) ==
    IF i > Len(users)
    THEN [raised |-> FALSE, data |-> out, calls |-> calls,
          log |-> <<LogLine("info", "Found users", Len(users))>>]
    ELSE IF faults.kind = "templates" /\ faults.at = i
         THEN [raised |-> TRUE, data |-> <<>>,
               calls |-> Append(calls, <<"get_templates">>),
               log |-> <<LogLine("info", "Found users", Len(users)),
                        LogLine("error", "Failed to download raw data", 0)>>]
         ELSE DownloadLoop(users, i + 1,
                           Append(out, UserData(users[i], dev.templates)),
                           Append(calls, <<"get_templates">>), faults)

\* download_raw_data(conn): `open` says whether conn is still connected.
download_raw_data(open, faults) ==
    IF ~open \/ faults.kind = "users"
    THEN [raised |-> TRUE, data |-> <<>>, calls |-> <<<<"get_users">>>>,
          log |-> <<LogLine("error", "Failed to download raw data", 0)>>]
    ELSE DownloadLoop(dev.users, 1, <<>>, <<<<"get_users">>>>, faults)

(***************************************************************************)
(* save_as_json                                                            *)
(***************************************************************************)
\* filename.replace('.json', '') + '_' + timestamp + '.json'
TimestampedName(filename, now) ==
    [stem |-> filename.stem, dotjson |-> TRUE, stamp |-> now]

EnvelopeCount(d) == PyLen(d)

Envelope(d, now) ==
    PyDict([export_date |-> now, total_records |-> EnvelopeCount(d),
            fingerprints |-> d])

Malformed == [kind |-> "malformed"]

\* save_as_json(data, filename) at time `now`.  When open raises, no file
\* is created.
save_as_json(d, filename, now, faults) ==
    IF faults.kind = "open"
    THEN [raised |-> TRUE, written |-> FALSE,
          name |-> TimestampedName(filename, now), content |-> Malformed,
          log |-> <<LogLine("error", "Failed to save data", 0)>>]
    ELSE [raised |-> FALSE, written |-> TRUE,
          name |-> TimestampedName(filename, now), content |-> Envelope(d, now),
          log |-> <<LogLine("info", "Data saved successfully", 0)>>]

\* The file system after save_as_json returned or raised r.
Written(r) ==
    IF r.written
    THEN [n \in DOMAIN fs \cup {r.name} |->
             IF n = r.name THEN r.content ELSE fs[n]]
    ELSE fs

(***************************************************************************)
(* upload_data_back                                                        *)
(***************************************************************************)
\* data.get('fingerprints', data): a list has no attribute get
HasGet(d) == d.kind = "dict"

GetFingerprints(d) ==
    IF "fingerprints" \in DOMAIN d.fields THEN d.fields.fingerprints ELSE d

\* The loop over the items, from item i on.
RECURSIVE UploadLoop(_, _, _, _, _)
UploadLoop(items, i, calls, lg, open) ==
    IF i > Len(items)
    THEN [raised |-> FALSE, calls |-> calls,
          log |-> Append(lg, LogLine("info", "Upload completed successfully", 0))]
    ELSE LET item == items[i] IN
         IF HasKey(item, "user_id") /\ HasKey(item, "finger_id")
                /\ HasKey(item, "template")
         THEN LET call == <<"set_user_template", item.val.user_id,
                            item.val.finger_id, item.val.template>>
                  rejected == ~open
                              \/ <<item.val.user_id, item.val.finger_id>> \in dev.rejects
              IN  UploadLoop(items, i + 1, Append(calls, call),
                             IF rejected
                             THEN Append(lg, LogLine("warning",
                                     "Failed to upload template for user",
                                     item.val.user_id))
                             ELSE lg,
                             open)
         ELSE IF HasKey(item, "user_id")
              \* KeyError in the try block: no device call, a warning
              THEN UploadLoop(items, i + 1, calls,
                              Append(lg, LogLine("warning",
                                     "Failed to upload template for user",
                                     item.val.user_id)),
                              open)
              \* the warning's own item['user_id'] raises: the outer handler
              ELSE [raised |-> TRUE, calls |-> calls,
                    log |-> Append(lg, LogLine("error", "Upload failed", 0))]

\* upload_data_back(conn, data): `open` says whether conn is still connected.
upload_data_back(d, open) ==
    IF ~HasGet(d)
    THEN [raised |-> TRUE, calls |-> <<>>,
          log |-> <<LogLine("error", "Upload failed", 0)>>]
    ELSE LET fingerprints == GetFingerprints(d)
         IN  UploadLoop(PyIter(fingerprints), 1, <<>>,
                        <<LogLine("info", "Preparing to upload",
                                  PyLen(fingerprints))>>,
                        open)

(***************************************************************************)
(* Variables a specification does not use keep their initial values.       *)
(***************************************************************************)
harnessVars == <<records, runs>>

cliVars == <<args, pc, conn, data, steps, exitCode, log>>

envVars == <<fs, clock, sessions>>

guiVars == <<connection, conn_status, connect_btn, disconnect_btn, last, prev>>

NoExit == -1

NotRun == [done |-> FALSE]

Ran(o) == [done |-> TRUE, out |-> o]

NoOp == [op |-> "none", calls |-> <<>>, dialog |-> "none", stale |-> FALSE]


HarnessIdle == records = [kind |-> "none", items |-> <<>>] /\ runs = <<>>

CliIdle ==
    /\ args = [action |-> "none"]
    /\ pc = "idle"
    /\ conn = None
    /\ data = None
    /\ steps = <<>>
    /\ exitCode = NoExit
    /\ log = <<>>

EnvIdle == fs = <<>> /\ clock = 1 /\ sessions = <<>>

GuiIdle ==
    /\ connection = None
    /\ conn_status = "Not Connected"
    /\ connect_btn = "normal"
    /\ disconnect_btn = "disabled"
    /\ last = NoOp
    /\ prev = "none"

(***************************************************************************)
(* download_raw_data called on an open session of any device               *)
(***************************************************************************)
InitDownload ==
    /\ \E U \in SUBSET Uids, T \in TemplateSets : dev = Device(U, T, {})
    /\ records = [kind |-> "none", items |-> <<>>]
    /\ runs = [download |-> NotRun]
    /\ CliIdle /\ EnvIdle /\ GuiIdle

Download ==
    /\ ~runs.download.done
    /\ \E f \in DeviceFaults :
           runs' = [runs EXCEPT !.download = Ran(download_raw_data(TRUE, f))]
    /\ UNCHANGED <<dev, records, cliVars, envVars, guiVars>>

NextDownload == Download

SpecDownload == InitDownload /\ [][NextDownload]_vars

(***************************************************************************)
(* upload_data_back called with a record list R, as a bare array and       *)
(* inside an envelope, on an open session                                  *)
(***************************************************************************)
\* The records download_raw_data returns on device d.
ExportedRecords(d) ==
    [i \in 1..Len(d.users) |-> UserData(d.users[i], d.templates)]

\* One record per template of device d, with the keys upload_data_back reads.
FlatRecords(d) ==
    [i \in 1..Len(d.templates) |->
        [user_id |-> User(d.templates[i].uid).user_id,
         finger_id |-> d.templates[i].fid,
         template |-> d.templates[i].template]]

WriteKeys(T) == {<<User(p[1]).user_id, p[2]>> : p \in T}

InitUpload ==
    /\ \E U \in SUBSET Uids, T \in TemplateSets :
         \E R \in {X \in SUBSET WriteKeys(T) : Cardinality(X) <= MaxRejects} :
           /\ dev = Device(U, T, R)
           /\ \/ records = [kind |-> "export", items |-> ExportedRecords(dev)]
              \/ records = [kind |-> "flat", items |-> FlatRecords(dev)]
    /\ runs = [bare |-> NotRun, envelope |-> NotRun]
    /\ CliIdle /\ EnvIdle /\ GuiIdle

UploadBare ==
    /\ ~runs.bare.done
    /\ runs' = [runs EXCEPT
                  !.bare = Ran(upload_data_back(PyList(records.items), TRUE))]
    /\ UNCHANGED <<dev, records, cliVars, envVars, guiVars>>

UploadEnvelope ==
    /\ ~runs.envelope.done
    /\ runs' = [runs EXCEPT
                  !.envelope = Ran(upload_data_back(
                                     Envelope(PyList(records.items), clock), TRUE))]
    /\ UNCHANGED <<dev, records, cliVars, envVars, guiVars>>

NextUpload == UploadBare \/ UploadEnvelope

SpecUpload == InitUpload /\ [][NextUpload]_vars

(***************************************************************************)
(* connect_to_device and the session's disconnect                          *)
(***************************************************************************)
\* connect_to_device(ip, port): a new session, or ZK.connect raises.  In the
\* GUI, `reachable` is also false when int(port) raises on the entry's text.
connect_to_device(reachable) ==
    IF reachable
    THEN [raised |-> FALSE, sessions |-> Append(sessions, "open"),
          conn |-> Len(sessions) + 1,
          log |-> <<LogLine("info", "Connecting to device", 0),
                    LogLine("info", "Connection successful!", 0)>>]
    ELSE [raised |-> TRUE, sessions |-> sessions, conn |-> None,
          log |-> <<LogLine("info", "Connecting to device", 0),
                    LogLine("error", "Connection failed", 0)>>]

IsOpen(c) == sessions[c] = "open"

\* conn.disconnect(): releases the session, never raises.
Disconnected(c) == [sessions EXCEPT ![c] = "closed"]

(***************************************************************************)
(* main(), command-line mode                                               *)
(***************************************************************************)
\* The devices of the command-line and the GUI runs: users 1..n, the
\* templates of user 1 for fingers 0..m-1, at most MaxRejects rejected writes.
SmallDevices ==
    {Device(1..n, {1} \X (0..(m - 1)), R) :
        n \in 0..MaxUid, m \in 0..MaxFid,
        R \in {X \in SUBSET WriteKeys({1} \X Fids) : Cardinality(X) <= MaxRejects}}

FileNames == [stem : {"fingerprint_data"}, dotjson : BOOLEAN, stamp : {0}]

\* What a file found on disk may hold: an earlier export of this device, a
\* file of one record per template (bare or in an envelope), or no JSON.
FileContents(d) ==
    {Envelope(PyList(ExportedRecords(d)), 0), Envelope(PyList(FlatRecords(d)), 0),
     PyList(FlatRecords(d)), Malformed}

\* except Exception as e: logger.error(...); sys.exit(1)
exit_status_ignoring_failure(raised) == IF raised THEN 0 ELSE 0

\* The status the process ends with: sys.exit(1) in the handler, 0 when
\* main returns.
exit_status(raised) == IF raised THEN 1 ELSE 0

InitCLI ==
    /\ dev \in SmallDevices
    /\ args \in [action : {"download", "upload", "both"}, file : FileNames]
    /\ \/ fs = <<>>
       \/ \E c \in FileContents(dev) : fs = (args.file :> c)
    /\ pc = "connect"
    /\ conn = None
    /\ data = None
    /\ steps = <<>>
    /\ exitCode = NoExit
    /\ log = <<>>
    /\ clock = 1
    /\ sessions = <<>>
    /\ HarnessIdle /\ GuiIdle

\* A step of the try block raised: the handler logs and exits.
MainFails(step, lg) ==
    /\ steps' = Append(steps, [step |-> step, ok |-> FALSE])
    /\ log' = log \o lg \o <<LogLine("error", "Operation failed", step)>>
    /\ exitCode' = exit_status(TRUE)
    /\ pc' = "exited"

MainSucceeds(step, lg, next) ==
    /\ steps' = Append(steps, [step |-> step, ok |-> TRUE])
    /\ log' = log \o lg
    /\ exitCode' = IF next = "exited" THEN exit_status(FALSE) ELSE exitCode
    /\ pc' = next

MainConnect ==
    /\ pc = "connect"
    /\ \E reachable \in BOOLEAN :
         LET r == connect_to_device(reachable) IN
         /\ sessions' = r.sessions
         /\ conn' = r.conn
         /\ IF r.raised THEN MainFails("connect", r.log)
            ELSE MainSucceeds("connect", r.log,
                     IF args.action \in {"download", "both"}
                     THEN "download" ELSE "load")
    /\ UNCHANGED <<dev, harnessVars, guiVars, args, data, fs, clock>>

MainDownload ==
    /\ pc = "download"
    /\ \E f \in DeviceFaults :
         LET r == download_raw_data(IsOpen(conn), f) IN
         /\ data' = IF r.raised THEN data ELSE PyList(r.data)
         /\ IF r.raised THEN MainFails("download", r.log)
            ELSE MainSucceeds("download", r.log, "save")
    /\ UNCHANGED <<dev, harnessVars, guiVars, args, conn, envVars>>

MainSave ==
    /\ pc = "save"
    /\ \E f \in FileFaults :
         LET r == save_as_json(data, args.file, clock, f) IN
         /\ fs' = Written(r)
         /\ IF r.raised THEN MainFails("save", r.log)
            ELSE MainSucceeds("save", r.log,
                     IF args.action \in {"upload", "both"}
                     THEN "load" ELSE "disconnect")
    /\ UNCHANGED <<dev, harnessVars, guiVars, args, conn, data, clock, sessions>>

\* with open(args.file, 'r') as f: data = json.load(f)
MainLoad ==
    /\ pc = "load"
    /\ IF args.file \notin DOMAIN fs \/ fs[args.file].kind = "malformed"
       THEN MainFails("load", <<>>) /\ data' = data
       ELSE MainSucceeds("load", <<>>, "upload") /\ data' = fs[args.file]
    /\ UNCHANGED <<dev, harnessVars, guiVars, args, conn, envVars>>

MainUpload ==
    /\ pc = "upload"
    /\ LET r == upload_data_back(data, IsOpen(conn)) IN
         IF r.raised THEN MainFails("upload", r.log)
         ELSE MainSucceeds("upload", r.log, "disconnect")
    /\ UNCHANGED <<dev, harnessVars, guiVars, args, conn, data, envVars>>

MainDisconnect ==
    /\ pc = "disconnect"
    /\ sessions' = Disconnected(conn)
    /\ MainSucceeds("disconnect", <<>>, "exited")
    /\ UNCHANGED <<dev, harnessVars, guiVars, args, conn, data, fs, clock>>

NextCLI ==
    \/ MainConnect
    \/ MainDownload
    \/ MainSave
    \/ MainLoad
    \/ MainUpload
    \/ MainDisconnect

SpecCLI == InitCLI /\ [][NextCLI]_vars

(***************************************************************************)
(* KupalDownloaderGUI: each handler is one action.  A handler catches      *)
(* every exception and shows it in an error dialog.  The handlers are      *)
(* methods: any of them may run in any state, whatever the buttons show.   *)
(***************************************************************************)
\* An employee file with the top-level key the upload handler reads.
EmployeesFile(d) ==
    PyDict([export_date |-> 0, total_records |-> Len(d.users),
            employees |-> PyList([i \in 1..Len(d.users) |->
                                    [uid |-> d.users[i].uid,
                                     user_id |-> d.users[i].user_id,
                                     name |-> d.users[i].name]])])

\* The files on disk when the GUI starts: one of each kind.
OldFile(stem) == [stem |-> stem, dotjson |-> TRUE, stamp |-> 0]

OldFiles(d) ==
    (OldFile("old_export") :> Envelope(PyList(ExportedRecords(d)), 0))
    @@ (OldFile("old_templates") :> Envelope(PyList(FlatRecords(d)), 0))
    @@ (OldFile("old_bare") :> PyList(FlatRecords(d)))
    @@ (OldFile("old_broken") :> Malformed)
    @@ (OldFile("old_employees") :> EmployeesFile(d))

\* The devices of the GUI runs: users 1..n, each with one template.
GuiDevices == {Device(1..n, (1..n) \X {0}, {}) : n \in 0..MaxUid}

InitGUI ==
    /\ dev \in GuiDevices
    /\ fs = OldFiles(dev)
    /\ clock = 1
    /\ sessions = <<>>
    /\ GuiIdle /\ HarnessIdle /\ CliIdle

\* The handler `op` has returned; `stale` says it made its device calls on
\* a session that was closed when it started.
Handled(op, calls, dialog) ==
    /\ last' = [op |-> op, calls |-> calls, dialog |-> dialog,
                stale |-> connection # None /\ calls # <<>>
                          /\ ~IsOpen(connection)]
    /\ prev' = last.op

connection_kept_after_disconnect(c) == c

\* self.connection = None
connection_after_disconnect(c) == None

connect_device ==
    /\ Len(sessions) < MaxSessions
    /\ \E reachable \in BOOLEAN :
         LET r == connect_to_device(reachable) IN
         IF r.raised
         THEN /\ Handled("connect_device", <<>>, "error")
              /\ UNCHANGED <<sessions, connection, conn_status, connect_btn,
                             disconnect_btn>>
         ELSE /\ sessions' = r.sessions
              /\ connection' = r.conn
              /\ conn_status' = "Connected"
              /\ connect_btn' = "disabled"
              /\ disconnect_btn' = "normal"
              /\ Handled("connect_device", <<>>, "info")
    /\ UNCHANGED <<dev, harnessVars, cliVars, fs, clock>>

\* The session's disconnect does not raise, so the except clause of the
\* handler is never entered.
disconnect_device ==
    /\ IF connection # None
       THEN /\ sessions' = Disconnected(connection)
            /\ connection' = connection_after_disconnect(connection)
            /\ Handled("disconnect_device", <<<<"disconnect">>>>, "none")
       ELSE /\ UNCHANGED <<sessions, connection>>
            /\ Handled("disconnect_device", <<>>, "none")
    /\ conn_status' = "Not Connected"
    /\ connect_btn' = "normal"
    /\ disconnect_btn' = "disabled"
    /\ UNCHANGED <<dev, harnessVars, cliVars, fs, clock>>

\* The handler stopped in its except clause: the error dialog, and no
\* disconnect.
HandlerError(op, calls) ==
    /\ Handled(op, calls, "error")
    /\ UNCHANGED sessions

EmployeeData(users) ==
    [i \in 1..Len(users) |->
        [uid |-> users[i].uid, user_id |-> users[i].user_id,
         name |-> users[i].name]]

download_employees ==
    /\ \E f \in {g \in Faults : g.kind # "templates"} :
         IF connection = None
         THEN HandlerError("download_employees", <<>>) /\ UNCHANGED fs
         ELSE IF ~IsOpen(connection) \/ f.kind = "users"
         THEN HandlerError("download_employees", <<<<"get_users">>>>)
              /\ UNCHANGED fs
         ELSE LET r == save_as_json(
                           PyDict([employees |-> PyList(EmployeeData(dev.users))]),
                           [stem |-> "employee_data", dotjson |-> FALSE, stamp |-> 0],
                           clock, f)
              IN  /\ fs' = Written(r)
                  /\ IF r.raised
                     THEN HandlerError("download_employees", <<<<"get_users">>>>)
                     ELSE /\ sessions' = Disconnected(connection)
                          /\ Handled("download_employees",
                                     <<<<"get_users">>, <<"disconnect">>>>,
                                     "info")
    /\ UNCHANGED <<dev, harnessVars, cliVars, clock, connection, conn_status,
                   connect_btn, disconnect_btn>>

download_fingerprints ==
    /\ \E f \in {g \in Faults : g.at <= Len(dev.users)} :
         IF connection = None
         THEN HandlerError("download_fingerprints", <<>>) /\ UNCHANGED fs
         ELSE LET d == download_raw_data(IsOpen(connection), f) IN
              IF d.raised
              THEN HandlerError("download_fingerprints", d.calls)
                   /\ UNCHANGED fs
              ELSE LET r == save_as_json(
                                PyList(d.data),
                                [stem |-> "fingerprint_data", dotjson |-> FALSE,
                                 stamp |-> 0],
                                clock, f)
                   IN  /\ fs' = Written(r)
                       /\ IF r.raised
                          THEN HandlerError("download_fingerprints", d.calls)
                          ELSE
                            /\ sessions' = Disconnected(connection)
                            /\ Handled("download_fingerprints",
                                       Append(d.calls, <<"disconnect">>), "info")
    /\ UNCHANGED <<dev, harnessVars, cliVars, clock, connection, conn_status,
                   connect_btn, disconnect_btn>>

\* data.get('employees', []) of the loaded file
GetEmployees(d) ==
    IF "employees" \in DOMAIN d.fields THEN d.fields.employees ELSE PyList(<<>>)

\* The loop over the employees, from item i on; the failAt-th set_user raises.
RECURSIVE SetUsers(_, _, _, _, _)
SetUsers(items, i, calls, open, failAt) ==
    IF i > Len(items)
    THEN [raised |-> FALSE, calls |-> calls]
    ELSE LET emp == items[i] IN
         IF ~(HasKey(emp, "uid") /\ HasKey(emp, "name") /\ HasKey(emp, "user_id"))
         THEN [raised |-> TRUE, calls |-> calls]
         ELSE LET call == <<"set_user", emp.val.uid, emp.val.user_id, emp.val.name>>
              IN  IF ~open \/ failAt = i
                  THEN [raised |-> TRUE, calls |-> Append(calls, call)]
                  ELSE SetUsers(items, i + 1, Append(calls, call), open, failAt)

\* filedialog.askopenfilename: a file of the disk, or '' when cancelled
NoFile == [stem |-> "", dotjson |-> FALSE, stamp |-> 0]

Choices == DOMAIN fs \cup {NoFile}

upload_employees ==
    /\ \E choice \in Choices :
         IF connection = None
         THEN HandlerError("upload_employees", <<>>) /\ UNCHANGED fs
         ELSE IF choice = NoFile
         THEN /\ Handled("upload_employees", <<>>, "none")
              /\ UNCHANGED <<sessions, fs>>
         ELSE IF fs[choice].kind = "malformed" \/ ~HasGet(fs[choice])
         THEN HandlerError("upload_employees", <<>>) /\ UNCHANGED fs
         ELSE LET emps == PyIter(GetEmployees(fs[choice])) IN
              \E failAt \in 0..Len(emps) :
                LET r == SetUsers(emps, 1, <<>>, IsOpen(connection), failAt)
                IN  IF r.raised
                    THEN HandlerError("upload_employees", r.calls)
                         /\ UNCHANGED fs
                    ELSE /\ sessions' = Disconnected(connection)
                         /\ Handled("upload_employees",
                                    Append(r.calls, <<"disconnect">>), "info")
                         /\ UNCHANGED fs
    /\ UNCHANGED <<dev, harnessVars, cliVars, clock, connection, conn_status,
                   connect_btn, disconnect_btn>>

upload_fingerprints ==
    /\ \E choice \in Choices :
         IF connection = None
         THEN HandlerError("upload_fingerprints", <<>>) /\ UNCHANGED fs
         ELSE IF choice = NoFile
         THEN /\ Handled("upload_fingerprints", <<>>, "none")
              /\ UNCHANGED <<sessions, fs>>
         ELSE IF fs[choice].kind = "malformed"
         THEN HandlerError("upload_fingerprints", <<>>) /\ UNCHANGED fs
         ELSE LET r == upload_data_back(fs[choice], IsOpen(connection))
              IN  IF r.raised
                  THEN HandlerError("upload_fingerprints", r.calls)
                       /\ UNCHANGED fs
                  ELSE /\ sessions' = Disconnected(connection)
                       /\ Handled("upload_fingerprints",
                                  Append(r.calls, <<"disconnect">>), "info")
                       /\ UNCHANGED fs
    /\ UNCHANGED <<dev, harnessVars, cliVars, clock, connection, conn_status,
                   connect_btn, disconnect_btn>>

\* A second passes.
Tick ==
    /\ clock < MaxClock
    /\ clock' = clock + 1
    /\ UNCHANGED <<dev, harnessVars, cliVars, fs, sessions, guiVars>>

NextGUI ==
    \/ connect_device
    \/ disconnect_device
    \/ download_employees
    \/ download_fingerprints
    \/ upload_employees
    \/ upload_fingerprints
    \/ Tick

SpecGUI == InitGUI /\ [][NextGUI]_vars

(***************************************************************************)
(* Properties of download_raw_data                                         *)
(***************************************************************************)
Range(s) == {s[i] : i \in DOMAIN s}

CallCount(calls, op) == Cardinality({i \in DOMAIN calls : calls[i][1] = op})

DownloadCompleted == runs.download.done /\ ~runs.download.out.raised

\* C2: the output of download_raw_data has one record per user of the device,
\* in order; the record of a user holds exactly the device's templates whose
\* uid is that user's uid (none: an empty list), so a template whose uid is
\* no user's uid is in no record.
C2_JoinCorrect ==
    DownloadCompleted =>
        LET out == runs.download.out.data
            ts == dev.templates
        IN  /\ Len(out) = Len(dev.users)
            /\ \A i \in 1..Len(out) :
                 /\ out[i].uid = dev.users[i].uid
                 /\ out[i].user_id = dev.users[i].user_id
                 /\ \A j \in 1..Len(ts) :
                      ExportedTemplate(ts[j]) \in Range(out[i].fingerprints)
                          <=> ts[j].uid = out[i].uid
                 /\ Len(out[i].fingerprints)
                        = Cardinality({j \in 1..Len(ts) : ts[j].uid = out[i].uid})

\* Users 1, 2, 3; two templates of user 1 and one of uid 4, which no user
\* has: user 1 gets two templates, users 2 and 3 none.
C2_Witness ==
    /\ DownloadCompleted
    /\ [i \in 1..Len(dev.users) |-> dev.users[i].uid] = <<1, 2, 3>>
    /\ [i \in 1..Len(dev.templates) |-> dev.templates[i].uid] = <<1, 1, 4>>
    /\ Len(runs.download.out.data[1].fingerprints) = 2
    /\ runs.download.out.data[3].fingerprints = <<>>

\* C8: a completed download_raw_data has called get_users exactly once and
\* get_templates exactly once, however many users the device has.
C8_OneListingEach ==
    DownloadCompleted =>
        /\ CallCount(runs.download.out.calls, "get_users") = 1
        /\ CallCount(runs.download.out.calls, "get_templates") = 1

(***************************************************************************)
(* Properties of upload_data_back                                          *)
(***************************************************************************)
\* The device rejects a write of record r.
WriteRejected(r) ==
    IF records.kind = "flat"
    THEN <<r.user_id, r.finger_id>> \in dev.rejects
    ELSE \E f \in Range(r.fingerprints) : <<r.user_id, f.fid>> \in dev.rejects

\* The device writes uploadAll owes record r.
WritesOwed(r) ==
    IF records.kind = "flat"
    THEN <<(<<"set_user_template", r.user_id, r.finger_id, r.template>>)>>
    ELSE <<(<<"set_user", r.uid, r.user_id, r.name>>)>>
         \o [n \in 1..Len(r.fingerprints) |->
                <<"set_user_template", r.user_id, r.fingerprints[n].fid,
                  r.fingerprints[n].template>>]

RECURSIVE WritesOwedFrom(_)
WritesOwedFrom(i) ==
    IF i > Len(records.items) THEN <<>>
    ELSE WritesOwed(records.items[i]) \o WritesOwedFrom(i + 1)

\* The user_ids of the failures reported, in order.
Reported(lg) ==
    LET w == SelectSeq(lg, LAMBDA l : l[1] = "warning")
    IN  [i \in 1..Len(w) |-> w[i][3]]

\* C1: when the device rejects the write of exactly one record k of R, a
\* call of upload_data_back with R (bare or in an envelope) does not raise,
\* attempts the writes of every other record and reports exactly one
\* failure, with the user_id of record k.
C1_PartialFailureTolerated ==
    \A shape \in DOMAIN runs :
        LET failing == {k \in 1..Len(records.items) :
                           WriteRejected(records.items[k])}
        IN  runs[shape].done /\ Cardinality(failing) = 1 =>
                LET k == CHOOSE x \in failing : TRUE
                    o == runs[shape].out
                IN  /\ ~o.raised
                    /\ \A j \in 1..Len(records.items) :
                         j # k => Range(WritesOwed(records.items[j]))
                                     \subseteq Range(o.calls)
                    /\ Reported(o.log) = <<records.items[k].user_id>>

\* C3: upload_data_back with the bare array R and with an envelope holding
\* R under `fingerprints` both return normally and make the same device
\* calls in the same order.
C3_BareAndEnvelopeAgree ==
    runs.bare.done /\ runs.envelope.done =>
        /\ ~runs.bare.out.raised
        /\ ~runs.envelope.out.raised
        /\ runs.bare.out.calls = runs.envelope.out.calls

\* C4: given the records download_raw_data produced, in the envelope
\* save_as_json writes, upload_data_back calls, for each record in order,
\* set_user and then set_user_template(user_id, fid, template) for each of
\* the record's templates.
C4_UserThenEachTemplate ==
    runs.envelope.done /\ records.kind = "export" =>
        runs.envelope.out.calls = WritesOwedFrom(1)

(***************************************************************************)
(* Properties of the command-line run                                      *)
(***************************************************************************)
RequestedSteps(action) ==
    <<"connect">>
    \o (IF action \in {"download", "both"} THEN <<"download", "save">> ELSE <<>>)
    \o (IF action \in {"upload", "both"} THEN <<"load", "upload">> ELSE <<>>)
    \o <<"disconnect">>

FailedSteps == {i \in 1..Len(steps) : ~steps[i].ok}

\* C6: the process exits with status 0 exactly when every step of the
\* requested action ran and none raised, and with status 1 when a step
\* (connect, download, save, load, upload) raised, the last line of the log
\* then being the error that names the failure.
C6_ExitStatus ==
    pc = "exited" =>
        /\ exitCode \in {0, 1}
        /\ exitCode = 0 <=> FailedSteps = {}
        /\ FailedSteps = {} =>
              [i \in 1..Len(steps) |-> steps[i].step] = RequestedSteps(args.action)
        /\ exitCode = 1 =>
              /\ FailedSteps = {Len(steps)}
              /\ log # <<>>
              /\ log[Len(log)]
                    = LogLine("error", "Operation failed", steps[Len(steps)].step)

\* --action both: connect, download and save succeeded, reading the file
\* failed, and the process exited with status 1.
C6_Witness ==
    /\ pc = "exited"
    /\ exitCode = 1
    /\ args.action = "both"
    /\ Len(steps) = 4
    /\ steps[4] = [step |-> "load", ok |-> FALSE]

\* C9: when the process has exited and connect had succeeded, the session
\* has been disconnected.
C9_SessionReleased ==
    pc = "exited" /\ conn # None => sessions[conn] = "closed"

(***************************************************************************)
(* Properties of the GUI                                                   *)
(***************************************************************************)
\* C5: when disconnect_device has run twice in a row, neither call ended in
\* an error, the second made no device call, and the GUI holds no
\* connection and shows "Not Connected".
C5_DisconnectTwice ==
    /\ last.op = "disconnect_device" => last.dialog # "error"
    /\ prev = "disconnect_device" /\ last.op = "disconnect_device" =>
          /\ last.calls = <<>>
          /\ connection = None
          /\ conn_status = "Not Connected"

\* Two calls in a row after a connect: the first released the session.
C5_Witness ==
    /\ prev = "disconnect_device"
    /\ last.op = "disconnect_device"
    /\ last.calls = <<>>
    /\ sessions = <<"closed">>
    /\ fs = OldFiles(dev)

\* C7: every file save_as_json wrote is an object with export_date,
\* total_records and a payload key: `fingerprints` for a fingerprint export,
\* `employees` for an employee export, each holding the array of the
\* device's users' records, and total_records is the length of that array.
C7_EnvelopeShape ==
    \A n \in DOMAIN fs :
        n.stamp # 0 =>
            LET c == fs[n]
                key == IF n.stem = "employee_data" THEN "employees"
                       ELSE "fingerprints"
            IN  /\ c.kind = "dict"
                /\ {"export_date", "total_records", key} \subseteq DOMAIN c.fields
                /\ c.fields[key].kind = "list"
                /\ Len(c.fields[key].items) = Len(dev.users)
                /\ c.fields.total_records = Len(c.fields[key].items)

\* C10: the GUI holds a connection exactly when the indicator shows
\* "Connected", the connection it holds is an open session, and no handler
\* made device calls on a session that was already closed.
C10_SessionState ==
    /\ connection # None <=> conn_status = "Connected"
    /\ connection # None => IsOpen(connection)
    /\ ~last.stale

====
